---- MODULE Spec2Model ----
(***************************************************************************)
(* Model of app.py: a Dash dashboard over bank_transactions.csv.           *)
(* The module-level code loads the CSV into the frame df once; the single  *)
(* callback update_graph(selected_option, selected_year, theme_choice)     *)
(* filters a copy of df by year, builds one figure and three style dicts.  *)
(***************************************************************************)
EXTENDS Integers, Sequences, FiniteSets, TLC

VARIABLES df, pc, called, selected_option, selected_year, theme_choice, dff, ret, memo

vars == <<df, pc, called, selected_option, selected_year, theme_choice, dff, ret, memo>>

(***************************************************************************)
(* Python values.  Every value is tagged, so that values of different      *)
(* Python types are different values (2020 is not "2020", None is not 0).  *)
(***************************************************************************)
PyStr(s) == <<"str", s>>
PyInt(n) == <<"int", n>>
None == <<"None">>
NaN == <<"NaN">>
NaT == <<"NaT">>
EmptyDict == [k \in {} |-> k]

\* Variant: the test left out, so the filter always runs.
TruthyAlways(v) == TRUE

\* bool(v), as used by `if selected_year:` and by the title's conditional.
Truthy(v) == v \notin {None, PyInt(0), PyStr("")}

\* One cell of `dff["Year"] == selected_year`: NaN equals nothing, and values
\* of different types are unequal.
PyEq(a, b) == a # NaN /\ b # NaN /\ a = b

(***************************************************************************)
(* Bounds and input sets.                                                  *)
(***************************************************************************)
MaxRows == 2

\* Text of the cells a CSV file may hold, per column.
DateTexts == {"2020-02-10", "2020-01-05", "2021-01-20", "not-a-date", ""}
AmountTexts == {"40", "100"}
TypeTexts == {"Credit", "Debit"}
YearTexts == {"2020", "2021"}
MonthTexts == {"March"}

\* The column sets of the CSV files considered, besides Amount and
\* Transaction_Type, which every file has.
Schemas == {{"Date"}, {"Year"}, {"Year", "Month"}, {"Month"}, {}}

CellTexts(c) ==
  CASE c = "Date" -> DateTexts
    [] c = "Year" -> YearTexts
    [] c = "Month" -> MonthTexts
    [] c = "Amount" -> AmountTexts
    [] c = "Transaction_Type" -> TypeTexts

CsvColumns(schema) == schema \cup {"Amount", "Transaction_Type"}

AllTexts == DateTexts \cup AmountTexts \cup TypeTexts \cup YearTexts \cup MonthTexts

\* The rows a file with these columns may hold: each cell drawn from its column's texts.
CsvRows(schema) ==
  {r \in [CsvColumns(schema) -> AllTexts] : \A c \in CsvColumns(schema) : r[c] \in CellTexts(c)}

SeqsUpTo(S, n) == UNION {[1..k -> S] : k \in 0..n}

CsvFiles ==
  UNION {{[columns |-> CsvColumns(schema), rows |-> rs] :
            rs \in SeqsUpTo(CsvRows(schema), MaxRows)} :
         schema \in Schemas}

\* Arguments the callback may be invoked with.
Options == {PyStr("count_type"), PyStr("amount_type"), PyStr("monthly_sum"), PyStr("xyz"), None}
YearInputs == {None, PyInt(0), PyInt(2020), PyInt(2021), PyStr("ALL")}
ThemeInputs == {PyStr("dark"), PyStr("light"), None}

(***************************************************************************)
(* Startup: lines 8-14 and 41.                                             *)
(***************************************************************************)
\* The numbers the numeric texts denote.
Numeric == ("40" :> 40) @@ ("100" :> 100) @@ ("2020" :> 2020) @@ ("2021" :> 2021)

\* pd.read_csv on one cell: an empty field is a missing value, a numeric text
\* a number, anything else a string.
ReadCell(text) ==
  IF text = "" THEN NaN
  ELSE IF text \in DOMAIN Numeric THEN PyInt(Numeric[text])
  ELSE PyStr(text)

read_csv(file) ==
  [columns |-> file.columns,
   rows |-> [i \in 1..Len(file.rows) |-> [c \in file.columns |-> ReadCell(file.rows[i][c])]]]

\* df.dropna(): every row with a missing value in any column is dropped.
dropna(frame) ==
  [frame EXCEPT !.rows = SelectSeq(@, LAMBDA r : \A c \in frame.columns : r[c] # NaN)]

\* The dates pd.to_datetime can parse, as <<"datetime", year, month>>.
Parsable ==
  ("2020-02-10" :> <<"datetime", 2020, 2>>) @@
  ("2020-01-05" :> <<"datetime", 2020, 1>>) @@
  ("2021-01-20" :> <<"datetime", 2021, 1>>)

\* pd.to_datetime(..., errors='coerce') on one cell.
to_datetime(v) ==
  IF v[1] = "str" /\ v[2] \in DOMAIN Parsable THEN Parsable[v[2]] ELSE NaT

MonthNames ==
  <<"January", "February", "March", "April", "May", "June", "July",
    "August", "September", "October", "November", "December">>

\* Series.dt.year and Series.dt.month_name() on one cell.
dt_year(d) == IF d = NaT THEN NaN ELSE PyInt(d[2])
dt_month_name(d) == IF d = NaT THEN NaN ELSE PyStr(MonthNames[d[3]])

\* Lines 11-14: the calendar columns exist only when the file has a Date column.
DeriveCalendar(frame) ==
  IF "Date" \in frame.columns
  THEN [columns |-> frame.columns \cup {"Year", "Month"},
        rows |-> [i \in 1..Len(frame.rows) |->
                    LET r == frame.rows[i]
                        d == to_datetime(r["Date"])
                    IN  [c \in frame.columns \cup {"Year", "Month"} |->
                           CASE c = "Date" -> d
                             [] c = "Year" -> dt_year(d)
                             [] c = "Month" -> dt_month_name(d)
                             [] OTHER -> r[c]]]]
  ELSE frame

Load(file) == DeriveCalendar(dropna(read_csv(file)))

\* Line 41 reads df['Year']: a KeyError ends the program before the app is served.
StartupOk(frame) == "Year" \in frame.columns

(***************************************************************************)
(* Themes: lines 19-33.                                                    *)
(***************************************************************************)
LIGHT_THEME ==
  [background |-> "#f5f7fa", card |-> "white", text |-> "#333",
   header |-> "#0b5394", shadow |-> "0 4px 12px rgba(0,0,0,0.1)"]

DARK_THEME ==
  [background |-> "#1e1e2f", card |-> "#2b2b40", text |-> "#e0e0e0",
   header |-> "#1e88e5", shadow |-> "0 4px 12px rgba(255,255,255,0.1)"]

\* Variant: the test made on "light" instead of "dark".
ThemeOfInverted(tc) == IF tc = PyStr("light") THEN LIGHT_THEME ELSE DARK_THEME

\* Line 179.
ThemeOf(tc) == IF tc = PyStr("dark") THEN DARK_THEME ELSE LIGHT_THEME

Template(tc) == IF tc = PyStr("dark") THEN "plotly_dark" ELSE "simple_white"

(***************************************************************************)
(* The callback update_graph: lines 178-265.                               *)
(***************************************************************************)
\* Lines 180-183: a copy of df, cut down to the rows of the year when the
\* year is truthy.
FilterYear(frame, sy) ==
  IF Truthy(sy)
  THEN [frame EXCEPT !.rows = SelectSeq(@, LAMBDA r : PyEq(r["Year"], sy))]
  ELSE frame

\* str(selected_year)
PyText(v) ==
  CASE v[1] = "str" -> v[2]
    [] v[1] = "int" -> ToString(v[2])
    [] OTHER -> v[1]

\* The f-string titles: the year follows the base text only when truthy.
Title(base, sy) == IF Truthy(sy) THEN <<base, " - ", PyText(sy)>> ELSE <<base>>

\* The values of one column, in row order.
Column(rows, c) == [i \in 1..Len(rows) |-> rows[i][c]]

RECURSIVE Unique(_)
\* The distinct values of a sequence in order of first appearance.
Unique(s) ==
  IF s = <<>> THEN <<>>
  ELSE <<Head(s)>> \o Unique(SelectSeq(Tail(s), LAMBDA x : x # Head(s)))

RECURSIVE SumAmount(_)
SumAmount(rows) ==
  IF rows = <<>> THEN 0 ELSE Head(rows)["Amount"][2] + SumAmount(Tail(rows))

\* groupby("Month", sort=False): the keys are the months present, missing ones
\* dropped, in order of first appearance.
GroupKeys(rows) == Unique(SelectSeq(Column(rows, "Month"), LAMBDA m : m # NaN))

\* Variant: first() in place of sum().
GroupSumFirst(rows, key) ==
  LET g == SelectSeq(rows, LAMBDA r : r["Month"] = key) IN g[1]["Amount"][2]

\* ["Amount"].sum() of one group.
GroupSum(rows, key) == SumAmount(SelectSeq(rows, LAMBDA r : r["Month"] = key))

\* Line 208: one (Month, Amount) row per group.
Monthly(rows) ==
  LET keys == GroupKeys(rows)
  IN  [i \in 1..Len(keys) |-> [x |-> keys[i], y |-> PyInt(GroupSum(rows, keys[i]))]]

\* The points handed to plotly: x alone for a histogram, which counts them
\* itself, x and y for a box plot.
XPoints(rows, xc) == [i \in 1..Len(rows) |-> [x |-> rows[i][xc], y |-> None]]
XYPoints(rows, xc, yc) == [i \in 1..Len(rows) |-> [x |-> rows[i][xc], y |-> rows[i][yc]]]

\* A figure as plotly express builds it; the layout colours are plotly's own
\* until update_layout sets them.
Figure(kind, title, template, color, data) ==
  [kind |-> kind, title |-> title, template |-> template, color |-> color, data |-> data,
   plot_bgcolor |-> "default", paper_bgcolor |-> "default", font_color |-> "default"]

\* Lines 227-235.
update_layout(fig, theme) ==
  [fig EXCEPT !.plot_bgcolor = theme.background,
              !.paper_bgcolor = theme.background,
              !.font_color = theme.text]

\* Lines 238-263: the keys of the three style dicts that depend on the theme.
main_style(theme) == [backgroundColor |-> theme.background, color |-> theme.text]
header_style(theme) == [backgroundColor |-> theme.header, boxShadow |-> theme.shadow]
card_style(theme) ==
  [backgroundColor |-> theme.card, boxShadow |-> theme.shadow, color |-> theme.text]

Bundle(fig, ms, hs, cs) ==
  [figure |-> fig, main_style |-> ms, header_style |-> hs, card_style |-> cs]

\* Variant: the fallback histogram drawn from df instead of dff.
BranchFigureUnfiltered(so, sy, tc, frame) ==
  CASE so = PyStr("count_type") ->
         Figure("histogram", Title("Count of Transactions by Type", sy), Template(tc),
                "Transaction_Type", XPoints(frame.rows, "Transaction_Type"))
    [] so = PyStr("amount_type") ->
         Figure("box", Title("Transaction Amount by Type", sy), Template(tc),
                "Transaction_Type", XYPoints(frame.rows, "Transaction_Type", "Amount"))
    [] so = PyStr("monthly_sum") ->
         Figure("line", Title("Monthly Transaction Amount Sum", sy), Template(tc),
                "", Monthly(frame.rows))
    [] OTHER ->
         Figure("histogram", <<"Count of Transactions by Type">>, Template(tc),
                "", XPoints(df.rows, "Transaction_Type"))
\* Lines 186-224: the figure of each branch, before update_layout.
BranchFigure(so, sy, tc, frame) ==
  CASE so = PyStr("count_type") ->
         Figure("histogram", Title("Count of Transactions by Type", sy), Template(tc),
                "Transaction_Type", XPoints(frame.rows, "Transaction_Type"))
    [] so = PyStr("amount_type") ->
         Figure("box", Title("Transaction Amount by Type", sy), Template(tc),
                "Transaction_Type", XYPoints(frame.rows, "Transaction_Type", "Amount"))
    [] so = PyStr("monthly_sum") ->
         Figure("line", Title("Monthly Transaction Amount Sum", sy), Template(tc),
                "", Monthly(frame.rows))
    [] OTHER ->
         Figure("histogram", <<"Count of Transactions by Type">>, Template(tc),
                "", XPoints(frame.rows, "Transaction_Type"))

\* What update_graph returns for a frame already filtered.
Result(so, sy, tc, frame) ==
  IF so = PyStr("monthly_sum") /\ "Month" \notin frame.columns
  THEN Bundle(Figure("scatter", <<"No Month data available">>, "default", "", <<>>),
              EmptyDict, EmptyDict, EmptyDict)
  ELSE LET theme == ThemeOf(tc)
       IN  Bundle(update_layout(BranchFigure(so, sy, tc, frame), theme),
                  main_style(theme), header_style(theme), card_style(theme))

\* Variant: the filter applied to df itself, without the copy.
DfAfterShared(frame, sy) == FilterYear(frame, sy)

\* The frame the module-level name df is bound to after a call: the filter
\* works on df.copy() and rebinds only the local dff.
DfAfter(frame, sy) == frame

\* An observer keeps the inputs and outputs of one earlier invocation, and
\* notes whether the callback ran again since.
NoMemo == [set |-> FALSE, later |-> FALSE, args |-> <<>>, out |-> <<>>]

update_graph(so, sy, tc) ==
  /\ pc = "serving"
  /\ called' = TRUE
  /\ selected_option' = so
  /\ selected_year' = sy
  /\ theme_choice' = tc
  /\ dff' = FilterYear(df, sy)
  /\ ret' = Result(so, sy, tc, FilterYear(df, sy))
  /\ df' = DfAfter(df, sy)
  /\ memo' = IF memo.set THEN [memo EXCEPT !.later = TRUE] ELSE memo
  /\ UNCHANGED pc


Remember ==
  /\ called
  /\ ~memo.set
  /\ memo' = [set |-> TRUE, later |-> FALSE, args |-> <<selected_option, selected_year, theme_choice>>,
              out |-> ret]
  /\ UNCHANGED <<df, pc, called, selected_option, selected_year, theme_choice, dff, ret>>

\* Before the first invocation the controls hold the layout's initial values
\* (lines 130, 151, 82) and the graph has no figure.
Init ==
  /\ \E file \in CsvFiles : df = Load(file)
  /\ pc = IF StartupOk(df) THEN "serving" ELSE "crashed"
  /\ called = FALSE
  /\ selected_option = PyStr("count_type")
  /\ selected_year = None
  /\ theme_choice = PyStr("light")
  /\ dff = [columns |-> {}, rows |-> <<>>]
  /\ ret = Bundle(Figure("none", <<>>, "default", "", <<>>), EmptyDict, EmptyDict, EmptyDict)
  /\ memo = NoMemo

\* Dash invokes the callback once when the page loads, with the initial values
\* of the three Input properties (lines 174-176), and again whenever one of
\* them changes, with the current values of all three.
PageLoad ==
  /\ ~called
  /\ update_graph(selected_option, selected_year, theme_choice)

ChangePlotDropdown(values) ==
  /\ called
  /\ \E v \in values \ {selected_option} : update_graph(v, selected_year, theme_choice)

ChangeYearDropdown(values) ==
  /\ called
  /\ \E v \in values \ {selected_year} : update_graph(selected_option, v, theme_choice)

ChangeThemeToggle(values) ==
  /\ called
  /\ \E v \in values \ {theme_choice} : update_graph(selected_option, selected_year, v)

Next ==
  \/ PageLoad
  \/ ChangePlotDropdown(Options)
  \/ ChangeYearDropdown(YearInputs)
  \/ ChangeThemeToggle(ThemeInputs)

Spec == Init /\ [][Next]_vars

\* The same program with an observer that keeps one earlier result, over
\* fewer values of the controls.
HistOptions == {PyStr("count_type"), PyStr("monthly_sum")}
HistYears == {None, PyInt(2020), PyInt(2021)}
HistThemes == {PyStr("dark"), PyStr("light")}

NextHist ==
  \/ PageLoad
  \/ ChangePlotDropdown(HistOptions)
  \/ ChangeYearDropdown(HistYears)
  \/ ChangeThemeToggle(HistThemes)
  \/ Remember

SpecHist == Init /\ [][NextHist]_vars

(***************************************************************************)
(* Properties.                                                             *)
(***************************************************************************)
MonthlySum == PyStr("monthly_sum")
KnownOptions == {PyStr("count_type"), PyStr("amount_type"), PyStr("monthly_sum")}

\* The rows of the base table whose Year is y, in base-table order.
RowsWithYear(y) == SelectSeq(df.rows, LAMBDA r : r["Year"] = y)

\* The calendar ordinal of a month label.
MonthOrdinal(label) == CHOOSE k \in 1..12 : MonthNames[k] = label[2]

\* The number of positions of a sequence that satisfy a test.
CountIn(s, Test(_)) == Cardinality({i \in 1..Len(s) : Test(s[i])})

RECURSIVE AmountOver(_, _)
\* The sum of Amount over the rows at the positions in I.
AmountOver(rows, I) ==
  IF I = {} THEN 0
  ELSE LET i == CHOOSE k \in I : TRUE
       IN  rows[i]["Amount"][2] + AmountOver(rows, I \ {i})

RECURSIVE TotalY(_)
TotalY(data) == IF data = <<>> THEN 0 ELSE Head(data).y[2] + TotalY(Tail(data))

\* The three style dicts coloured from the theme the choice selects.
StylesOf(choice) ==
  LET t == IF choice = PyStr("dark") THEN DARK_THEME ELSE LIGHT_THEME
  IN  <<[backgroundColor |-> t.background, color |-> t.text],
        [backgroundColor |-> t.header, boxShadow |-> t.shadow],
        [backgroundColor |-> t.card, boxShadow |-> t.shadow, color |-> t.text]>>

Styles(bundle) == <<bundle.main_style, bundle.header_style, bundle.card_style>>

\* C1: for every concrete (integer) year passed as the year filter, the rows
\* update_graph aggregates are exactly the rows of the base table whose Year
\* equals that year, in base-table order.
C1_YearFilterExact ==
  (called /\ selected_year[1] = "int") => dff.rows = RowsWithYear(selected_year)

C3_MonthlySorted ==
  (called /\ selected_option = MonthlySum /\ ret.figure.kind = "line") =>
    \A i, j \in 1..Len(ret.figure.data) :
      i < j => MonthOrdinal(ret.figure.data[i].x) < MonthOrdinal(ret.figure.data[j].x)

\* C4: the monthly-trend view holds each month label of the filtered rows
\* exactly once, each with the sum of Amount over the filtered rows of that
\* month, and the group amounts add up to the Amount of the rows with a month.
C4_MonthlySums ==
  (called /\ selected_option = MonthlySum /\ ret.figure.kind = "line") =>
    LET data == ret.figure.data
        rows == dff.rows
        months == {rows[i]["Month"] : i \in 1..Len(rows)} \ {NaN}
    IN  /\ {data[i].x : i \in 1..Len(data)} = months
        /\ Len(data) = Cardinality(months)
        /\ \A i \in 1..Len(data) :
             data[i].y =
               PyInt(AmountOver(rows, {k \in 1..Len(rows) : rows[k]["Month"] = data[i].x}))
        /\ TotalY(data) = AmountOver(rows, {k \in 1..Len(rows) : rows[k]["Month"] # NaN})

C4_Witness ==
  /\ called
  /\ selected_option = MonthlySum
  /\ ret.figure.kind = "line"
  /\ Len(dff.rows) = 2
  /\ dff.rows[1]["Month"] = dff.rows[2]["Month"]
  /\ dff.rows[1]["Amount"] # dff.rows[2]["Amount"]
  /\ Len(ret.figure.data) = 1
  /\ ret.figure.data[1].y = PyInt(140)

\* C5: in the monthly-trend view rows without a month are left out, and when no
\* month group remains the result is an explicit "no data available" result,
\* not a line chart over zero groups.
C5_EmptyMonthlyIsNoData ==
  (called /\ selected_option = MonthlySum) =>
    /\ \A i \in 1..Len(ret.figure.data) : ret.figure.data[i].x # NaN
    /\ ret.figure.data = <<>> => ret.figure.kind # "line"

\* C6: an invocation with a selector outside the three known ones returns the
\* default view, the count of filtered rows per Transaction_Type, with the
\* styles of the chosen theme, and leaves the base table as it was.
C6_FallbackView ==
  [][(called' /\ selected_option' \notin KnownOptions) =>
       /\ ret'.figure.kind = "histogram"
       /\ Len(ret'.figure.data) = Len(dff'.rows)
       /\ \A t \in {PyStr(x) : x \in TypeTexts} :
            CountIn(ret'.figure.data, LAMBDA p : p.x = t)
              = CountIn(dff'.rows, LAMBDA r : r["Transaction_Type"] = t)
       /\ Styles(ret') = StylesOf(theme_choice')
       /\ df' = df]_vars

C6_Witness ==
  /\ called
  /\ selected_option = PyStr("xyz")
  /\ selected_year = PyInt(2020)
  /\ theme_choice = PyStr("dark")
  /\ ret.figure.kind = "histogram"
  /\ Len(dff.rows) = 1
  /\ Len(df.rows) = 2

\* C7: no invocation of update_graph changes the base table df.
C7_BaseTableImmutable == [][df' = df]_vars

C7_Witness ==
  /\ called
  /\ Truthy(selected_year)
  /\ Len(dff.rows) < Len(df.rows)

\* C8: a row whose date could not be parsed stays in the base table with Year
\* and Month absent; without a year filter it is counted in the type-count and
\* type/amount views; it is in no monthly-trend group and in no view filtered
\* by a year.
C8_MalformedDateRow ==
  (called /\ "Date" \in df.columns) =>
    \A i \in 1..Len(df.rows) :
      df.rows[i]["Date"] = NaT =>
        /\ df.rows[i]["Year"] = NaN /\ df.rows[i]["Month"] = NaN
        /\ (selected_year = None /\ selected_option \in {PyStr("count_type"), PyStr("amount_type")})
             => Len(ret.figure.data) = Len(df.rows)
        /\ selected_option = MonthlySum
             => \A k \in 1..Len(ret.figure.data) : ret.figure.data[k].x # NaN
        /\ selected_year # None
             => \A k \in 1..Len(dff.rows) : dff.rows[k]["Date"] # NaT

\* C9: an invocation with the inputs of an earlier invocation returns what the
\* earlier one returned, whatever was invoked in between.
C9_Deterministic ==
  (memo.set /\ memo.args = <<selected_option, selected_year, theme_choice>>) =>
    ret = memo.out

C9_Witness ==
  /\ memo.set
  /\ memo.later
  /\ memo.args = <<selected_option, selected_year, theme_choice>>
  /\ memo.args[2] = None
  /\ Len(df.rows) = 2

\* C10 as stated: after a successful startup every invocation returns the three
\* style dicts coloured from the chosen theme.
C10_AlwaysThemed ==
  (pc = "serving" /\ called) => Styles(ret) = StylesOf(theme_choice)

\* C10 amended: every invocation returns the three style dicts coloured from
\* the chosen theme, except a monthly_sum invocation on a table without a Month
\* column, which returns three empty dicts; that table comes from a file with
\* a Year column and no Date column, so with a Date column the styles are
\* always the theme's.
C10_ThemedUnlessNoMonth ==
  (pc = "serving" /\ called) =>
    IF selected_option = MonthlySum /\ "Month" \notin df.columns
    THEN /\ Styles(ret) = <<EmptyDict, EmptyDict, EmptyDict>>
         /\ ret.figure.kind = "scatter"
         /\ "Date" \notin df.columns
    ELSE /\ Styles(ret) = StylesOf(theme_choice)
         /\ ret.figure.kind # "scatter"

C10_Witness ==
  /\ called
  /\ "Date" \in df.columns
  /\ selected_option = MonthlySum
  /\ theme_choice = None
  /\ Styles(ret) = StylesOf(PyStr("light"))

====
